---- MODULE Spec2Model ----
(***************************************************************************)
(* A model of src/async.py: the Loop (a list of timed Events), the Future  *)
(* (status, _result, callbacks), the driver run() and the coroutine        *)
(* sleep().                                                                *)
(*                                                                         *)
(* Time is counted in ticks of half a second, the margin run() adds to     *)
(* every blocking wait (line 116).  Every datetime.now() of the source is  *)
(* a separate read of a clock that never goes back: between two reads the  *)
(* clock may have advanced, by a total of at most MaxJitter ticks over a   *)
(* behaviour; time.sleep(d) advances it by d.                              *)
(***************************************************************************)
EXTENDS Integers, Sequences, FiniteSets, TLC

\* ---------------------------------------------------------------- bounds
MaxJitter == 2
MaxCoros == 3
MaxFutures == 2
MaxCallbacks == 2
MaxCalls == 5
\* run() calls made by the program
MaxRuns == 2

\* ------------------------------------------------------------- constants
\* ticks in a second: the tick is the 0.5 s margin of line 116
TicksPerSecond == 2
\* the margin of line 116, 0.5 s, in ticks
Margin == 1
\* timedelta.seconds is taken within a day of 86400 seconds
SecondsPerDay == 86400

\* Python's None, and the marker of an attribute that was never assigned
None == "None"
NoAttr == "<unset>"

\* sleep() arguments, delays in ticks: sleep(0, "r"), sleep(0.5, "r") and the demo's
\* sleep(2) and sleep(5) (line 136)
SleepArgs ==
  {[delay |-> 0, result |-> "r"], [delay |-> 1, result |-> "r"],
   [delay |-> 4, result |-> None], [delay |-> 10, result |-> None]}
\* values a holder passes to set_result()
Values == {None, "v", "w"}

\* FutureStatus, lines 8-11
DONE == "DONE"
SCHEDULED == "SCHEDULED"
CANCELLED == "CANCELLED"
FutureStatus == {DONE, SCHEDULED, CANCELLED}

VARIABLES
  clock,      \* the wall clock, in ticks
  jitter,     \* ticks the clock advanced outside time.sleep so far
  events,     \* current_loop.events
  allocated,  \* number of Event objects constructed so far (Event identity)
  futures,    \* the Future objects created so far, by identity 1..Len
  gens,       \* the generator objects passed to run(): their position and locals
  results,    \* run()'s local list
  runpc,      \* "idle" | "loop" | "returned" | "aborted"
  retval,     \* what run() returned
  executed,   \* the Events the run() calls have executed, in order, each with the
              \* outcome of its callee
  completed,  \* the computations that raised StopIteration and their final values, in order
  slept,      \* total of the durations passed to time.sleep
  waits,      \* the durations passed to time.sleep, in order
  calls,      \* number of holder calls on the Future API so far
  lastcall,   \* the last holder call: its method and its Future
  late,       \* the Callbacks that were registered on a Future that was DONE
  runs,       \* number of run() calls so far
  coros       \* the computations passed to the current run() call, as indices of gens

vars == <<clock, jitter, events, allocated, futures, gens, results, runpc,
          retval, executed, completed, slept, waits, calls, lastcall, late, runs, coros>>

\* ------------------------------------------------------------ data types
\* Callback(fn, args), lines 14-16.  fn is a bound method: its name and its object.
Callback(fn, self, args) == [fn |-> fn, self |-> self, args |-> args]

\* Event(callback, when), lines 19-22; id is the object's identity
Event(c, when, id) == [callback |-> c, when |-> when, id |-> id]

\* Loop.call_soon with datetime.now() = now
call_soon(evs, c, now, id) == Append(evs, Event(c, now, id))

\* Loop.call_later
call_later(evs, c, when, id) == Append(evs, Event(c, when, id))

\* Future(), lines 41-44 and create_future
create_future == [callbacks |-> <<>>, status |-> SCHEDULED, result_ |-> NoAttr]

\* a result property that ignores the stored attribute
Future_result_none(fut) == None

\* Future.result: getattr(self, "_result", None)
Future_result(fut) == IF fut.result_ = NoAttr THEN None ELSE fut.result_

\* Future.done
Future_done(fut) == fut.status # SCHEDULED

\* Future._schedule_callbacks: one call_soon, with its own clock read ts[i], per callback
RECURSIVE schedule_callbacks(_, _, _, _, _)
schedule_callbacks(evs, cbs, ts, id, i) ==
  IF i > Len(cbs) THEN evs
  ELSE schedule_callbacks(call_soon(evs, cbs[i], ts[i], id + i), cbs, ts, id, i + 1)

\* a cancel that also drops the stored result
Future_cancel_unsets(fut) == [fut EXCEPT !.status = CANCELLED, !.result_ = NoAttr]

\* Future.cancel
Future_cancel(fut) == [fut EXCEPT !.status = CANCELLED]

\* Future.add_done_callback
Future_add_done_callback(fut, c) == [fut EXCEPT !.callbacks = Append(@, c)]

\* Future.set_result, the part on the Future itself (lines 54-55)
Future_set_result(fut, value) == [fut EXCEPT !.result_ = value, !.status = DONE]

\* --------------------------------------------------------------- clock
\* the values n successive datetime.now() calls may return
Reads(n) ==
  {ts \in [1..n -> clock..(clock + (MaxJitter - jitter))] :
     \A i \in 1..(n - 1) : ts[i] <= ts[i + 1]}

LastRead(ts) == IF Len(ts) = 0 THEN clock ELSE ts[Len(ts)]

\* timedelta.seconds of a difference of d ticks: whole seconds within the day;
\* a negative difference is normalised to days = -1 and a positive remainder
timedelta_seconds(d) == (d % (SecondsPerDay * TicksPerSecond)) \div TicksPerSecond

\* the argument of time.sleep at line 116, in ticks
sleep_duration(when, now) == timedelta_seconds(when - now) * TicksPerSecond + Margin

\* ---------------------------------------------------------------- sort
\* an insertion that puts an Event before the Events of the same when
RECURSIVE insert_sorted_unstable(_, _)
insert_sorted_unstable(sorted, e) ==
  IF sorted = <<>> THEN <<e>>
  ELSE IF Head(sorted).when < e.when
       THEN <<Head(sorted)>> \o insert_sorted_unstable(Tail(sorted), e)
       ELSE <<e>> \o sorted

\* list.sort(key=lambda e: e.when): a stable sort
RECURSIVE insert_sorted(_, _)
insert_sorted(sorted, e) ==
  IF sorted = <<>> THEN <<e>>
  ELSE IF Head(sorted).when <= e.when
       THEN <<Head(sorted)>> \o insert_sorted(Tail(sorted), e)
       ELSE <<e>> \o sorted

RECURSIVE sort_from(_, _, _)
sort_from(evs, i, acc) ==
  IF i > Len(evs) THEN acc ELSE sort_from(evs, i + 1, insert_sorted(acc, evs[i]))

sort_by_when(evs) == sort_from(evs, 1, <<>>)

Init ==
  /\ clock = 0
  /\ jitter = 0
  /\ events = <<>>
  /\ allocated = 0
  /\ futures = <<>>
  /\ gens = <<>>
  /\ results = <<>>
  /\ runpc = "idle"
  /\ retval = [tag |-> "pending"]
  /\ executed = <<>>
  /\ completed = <<>>
  /\ slept = 0
  /\ waits = <<>>
  /\ calls = 0
  /\ lastcall = [op |-> "none", f |-> 0]
  /\ late = {}
  /\ runs = 0
  /\ coros = <<>>

\* ------------------------------------------------------------ coroutines
\* an __iter__ that suspends on a cancelled Future as well
Future_iter_waits_cancelled(fut) ==
  IF fut.status = DONE THEN [kind |-> "return", value |-> Future_result(fut)]
  ELSE [kind |-> "yield", value |-> None]

\* Future.__iter__ / __await__ (lines 61-68) up to its first suspension: it returns
\* at once when the Future is DONE or CANCELLED, and yields the Future otherwise
Future_iter(fut) ==
  IF fut.status = DONE THEN [kind |-> "return", value |-> Future_result(fut)]
  ELSE IF fut.status = CANCELLED THEN [kind |-> "return", value |-> None]
  ELSE [kind |-> "yield", value |-> None]

\* what a callee hands back to line 100/102: a Future object or a plain value
AFuture(f) == [tag |-> "future", val |-> f]
AValue(v) == [tag |-> "value", val |-> v]

\* a Future object held as a value (an argument, a stored result), by its identity
FutureRef(f) == "Future#" \o ToString(f)

\* the object a value is, as isinstance(res_or_fut, Future) of line 104 sees it
as_object(v, fs) ==
  IF \E f \in 1..Len(fs) : v = FutureRef(f)
  THEN AFuture(CHOOSE f \in 1..Len(fs) : v = FutureRef(f))
  ELSE AValue(v)

\* a timer armed for now, whatever the delay
deadline_now(now, delay) == now

\* datetime.now() + timedelta(seconds=delay), line 128
deadline(now, delay) == now + delay

\* coro.send(None) on the generator of sleep(delay, result), lines 121-133.
\* s holds the objects the call may touch; now is the clock read of line 128.
\*   start:    create the Future, arm the timer, suspend on the Future
\*   awaiting: the inner generator ends, sleep returns future.result (StopIteration)
\*   finished: an exhausted generator raises StopIteration(None)
sleep_send(c, s, now) ==
  LET g == s.gens[c] IN
  IF g.pc = "start" THEN
    LET f == Len(s.futures) + 1
        armed == call_later(s.events, Callback("set_result", f, <<g.result>>),
                            deadline(now, g.delay), s.allocated + 1)
        out == Future_iter(create_future)
    IN [futures |-> Append(s.futures, create_future),
        events |-> armed,
        allocated |-> s.allocated + 1,
        gens |-> [s.gens EXCEPT ![c] =
                    [@ EXCEPT !.pc = IF out.kind = "yield" THEN "awaiting" ELSE "finished",
                              !.future = f, !.t0 = now]],
        ret |-> IF out.kind = "yield" THEN AFuture(f) ELSE AValue(out.value),
        stop |-> out.kind # "yield",
        raised |-> FALSE]
  ELSE IF g.pc = "awaiting" THEN
    [futures |-> s.futures, events |-> s.events, allocated |-> s.allocated,
     gens |-> [s.gens EXCEPT ![c] = [@ EXCEPT !.pc = "finished"]],
     ret |-> as_object(Future_result(s.futures[g.future]), s.futures),
     stop |-> TRUE,
     raised |-> FALSE]
  ELSE
    [futures |-> s.futures, events |-> s.events, allocated |-> s.allocated,
     gens |-> s.gens, ret |-> AValue(None), stop |-> TRUE, raised |-> FALSE]

\* what a step of computation c leaves behind: its generator object g, what it
\* handed back, whether it ended with StopIteration, whether it raised an error
step_of(c, s, g, ret, stop, raised) ==
  [futures |-> s.futures, events |-> s.events, allocated |-> s.allocated,
   gens |-> [s.gens EXCEPT ![c] = g], ret |-> ret, stop |-> stop, raised |-> raised]

\* `got = yield from f` for the Futures futs[k..] of a computation, lines 61-68 as
\* a caller sees them: a Future that is DONE or CANCELLED produces its value at once
\* and the computation goes on to the next one, a SCHEDULED one suspends the
\* computation with the Future handed to the driver; past the last Future the
\* computation returns the last value it got
RECURSIVE await_from(_, _, _, _)
await_from(c, s, g, k) ==
  IF k > Len(g.futs)
  THEN step_of(c, s, [g EXCEPT !.pc = "finished", !.at = k],
               as_object(g.got, s.futures), TRUE, FALSE)
  ELSE LET fut == s.futures[g.futs[k]]
           out == Future_iter(fut)
           entry == [at |-> k, f |-> g.futs[k], status |-> fut.status,
                     stored |-> fut.result_, out |-> out]
       IN IF out.kind = "yield"
          THEN step_of(c, s, [g EXCEPT !.pc = "awaiting", !.at = k,
                                       !.seen = Append(@, entry)],
                       AFuture(g.futs[k]), FALSE, FALSE)
          ELSE await_from(c, s, [g EXCEPT !.got = out.value,
                                          !.seen = Append(@, entry)], k + 1)

\* coro.send(None) on a generator object of the caller's own, line 100:
\*   await: resumed in `yield self` of line 68, the Future's generator ends without
\*          a value and the computation goes on with the next Future
\*   emit:  yields a plain value, then ends
\*   fail:  raises an error that is not StopIteration
\* and an exhausted generator raises StopIteration(None)
task_send(c, s) ==
  LET g == s.gens[c] IN
  IF g.pc = "finished" THEN step_of(c, s, g, AValue(None), TRUE, FALSE)
  ELSE IF g.kind = "await"
  THEN IF g.pc = "start" THEN await_from(c, s, g, 1)
       ELSE await_from(c, s, [g EXCEPT !.got = None], g.at + 1)
  ELSE IF g.kind = "emit"
  THEN IF g.pc = "start" THEN step_of(c, s, [g EXCEPT !.pc = "yielded"],
                                      AValue(g.value), FALSE, FALSE)
       ELSE step_of(c, s, [g EXCEPT !.pc = "finished"], AValue(None), TRUE, FALSE)
  ELSE step_of(c, s, [g EXCEPT !.pc = "finished"], AValue(None), FALSE, TRUE)

\* coro.send(None), line 100, on any of the computations
coro_send(c, s, now) ==
  IF s.gens[c].kind = "sleep" THEN sleep_send(c, s, now) ELSE task_send(c, s)

\* future.set_result(value) as a callee of the loop, lines 53-56: ts are the clock
\* reads of its call_soon calls
set_result_call(f, value, s, ts) ==
  LET fut == Future_set_result(s.futures[f], value) IN
  [futures |-> [s.futures EXCEPT ![f] = fut],
   events |-> schedule_callbacks(s.events, fut.callbacks, ts, s.allocated, 1),
   allocated |-> s.allocated + Len(fut.callbacks),
   gens |-> s.gens,
   ret |-> AValue(None),
   stop |-> FALSE,
   raised |-> FALSE]

\* number of datetime.now() calls the callee of callback cb makes
callee_reads(cb) ==
  IF cb.fn = "send"
  THEN (IF gens[cb.self].kind = "sleep" /\ gens[cb.self].pc = "start" THEN 1 ELSE 0)
  ELSE Len(futures[cb.self].callbacks)

\* current_event.callback.fn(*current_event.callback.args), line 100
invoke(cb, s, ts) ==
  IF cb.fn = "send" THEN coro_send(cb.self, s, IF Len(ts) > 0 THEN ts[1] ELSE clock)
  ELSE set_result_call(cb.self, cb.args[1], s, ts)

\* a driver that registers no continuation
after_step_forgets(cb, r) ==
  IF r.ret.tag = "value" /\ r.ret.val = None
  THEN [futures |-> r.futures, results |-> Append(results, r.ret.val)]
  ELSE [futures |-> r.futures, results |-> results]

\* lines 104-109: a Future gets the continuation, None is appended to results
after_step(cb, r) ==
  IF r.ret.tag = "future"
  THEN [futures |-> [r.futures EXCEPT ![r.ret.val] =
                       Future_add_done_callback(@, Callback(cb.fn, cb.self, cb.args))],
        results |-> results]
  ELSE IF r.ret.val = None
       THEN [futures |-> r.futures, results |-> Append(results, r.ret.val)]
       ELSE [futures |-> r.futures, results |-> results]

\* ------------------------------------------------------------------ run
\* the Future a suspended computation is suspended on
waiting_on(g) == IF g.kind = "sleep" THEN g.future ELSE g.futs[g.at]

\* one iteration of lines 95-102 that executed Event ev: the Event, whether its
\* when was at or before the clock read of line 95, the run() call it belongs to,
\* where the callee's computation stood before the call and the status of the
\* Future it was suspended on, and how the call ended
step_record(ev, now, r) ==
  [callback |-> ev.callback, when |-> ev.when, id |-> ev.id, due |-> ev.when <= now,
   run |-> runs,
   pc |-> IF ev.callback.fn = "send" THEN gens[ev.callback.self].pc ELSE "-",
   wstatus |-> IF ev.callback.fn = "send" /\ gens[ev.callback.self].pc = "awaiting"
               THEN futures[waiting_on(gens[ev.callback.self])].status ELSE "-",
   stop |-> r.stop, raised |-> r.raised, ret |-> r.ret]

\* a due test that lets every Event through
is_due_always(ev, now) == TRUE

\* current_event.when <= now, line 98
is_due(ev, now) == ev.when <= now

\* a removal that takes the next Event along with the executed one
del_first_two(evs) == IF Len(evs) > 1 THEN Tail(Tail(evs)) ELSE Tail(evs)

\* del current_loop.events[0], line 111
del_first(evs) == Tail(evs)

SeqsUpTo(S, n) == UNION {[1..k -> S] : k \in 0..n}

\* sleep(delay, result): a generator object that has not started
sleep(a) ==
  [kind |-> "sleep", pc |-> "start", delay |-> a.delay, result |-> a.result,
   future |-> 0, t0 |-> 0]

\* the seeding loop of lines 90-91
RECURSIVE seed(_, _, _, _, _)
seed(evs, n, ts, id, i) ==
  IF i > n THEN evs
  ELSE seed(call_soon(evs, Callback("send", i, <<None>>), ts[i], id + i), n, ts, id, i + 1)

\* run(*coros), lines 84-91: with no coroutine it returns at once
RunCall ==
  /\ runpc = "idle"
  /\ \E args \in SeqsUpTo(SleepArgs, MaxCoros) :
       IF Len(args) <= 0
       THEN /\ runpc' = "returned"
            /\ retval' = [tag |-> "none", val |-> <<>>]
            /\ runs' = runs + 1
            /\ UNCHANGED <<clock, jitter, events, allocated, futures, gens, results,
                           executed, completed, slept, waits, calls, lastcall, late>>
            /\ coros' = <<>>
       ELSE \E ts \in Reads(Len(args)) :
            /\ gens' = [i \in 1..Len(args) |-> sleep(args[i])]
            /\ results' = <<>>
            /\ events' = seed(events, Len(args), ts, allocated, 1)
            /\ allocated' = allocated + Len(args)
            /\ clock' = LastRead(ts)
            /\ jitter' = jitter + (LastRead(ts) - clock)
            /\ runpc' = "loop"
            /\ runs' = runs + 1
            /\ coros' = [i \in 1..Len(args) |-> i]
            /\ UNCHANGED <<futures, retval, executed, completed, slept, waits, calls,
                           lastcall, late>>

\* one iteration of the loop of lines 93-111 whose earliest Event is due:
\* ts[1] is the read of line 95, the other reads are the callee's
RunExecute ==
  /\ runpc = "loop"
  /\ Len(events) > 0
  /\ \E sorted \in {sort_by_when(events)} :
     \E cur \in {sorted[1]} :
     \E ts \in Reads(1 + callee_reads(cur.callback)) :
       /\ is_due(cur, ts[1])
       /\ \E r \in {invoke(cur.callback,
                           [futures |-> futures, events |-> sorted,
                            allocated |-> allocated, gens |-> gens],
                           SubSeq(ts, 2, Len(ts)))} :
          \E a \in {after_step(cur.callback, r)} :
            /\ ~r.raised
            /\ futures' = a.futures
            /\ results' = a.results
            /\ events' = del_first(r.events)
            /\ allocated' = r.allocated
            /\ gens' = r.gens
            /\ executed' = Append(executed, step_record(cur, ts[1], r))
            /\ completed' = IF r.stop
                            THEN Append(completed,
                                        [coro |-> cur.callback.self, value |-> r.ret.val])
                            ELSE completed
       /\ clock' = LastRead(ts)
       /\ jitter' = jitter + (LastRead(ts) - clock)
       /\ UNCHANGED <<runpc, retval, slept, waits, calls, lastcall, late, runs, coros>>

\* one iteration whose earliest Event is due and whose callee raises an error: the
\* error leaves run() at line 100, before the del of line 111
RunAbort ==
  /\ runpc = "loop"
  /\ Len(events) > 0
  /\ \E sorted \in {sort_by_when(events)} :
     \E cur \in {sorted[1]} :
     \E ts \in Reads(1 + callee_reads(cur.callback)) :
       /\ is_due(cur, ts[1])
       /\ \E r \in {invoke(cur.callback,
                           [futures |-> futures, events |-> sorted,
                            allocated |-> allocated, gens |-> gens],
                           SubSeq(ts, 2, Len(ts)))} :
            /\ r.raised
            /\ futures' = r.futures
            /\ events' = r.events
            /\ allocated' = r.allocated
            /\ gens' = r.gens
            /\ executed' = Append(executed, step_record(cur, ts[1], r))
       /\ clock' = LastRead(ts)
       /\ jitter' = jitter + (LastRead(ts) - clock)
       /\ runpc' = "aborted"
       /\ retval' = [tag |-> "raised", val |-> <<>>]
       /\ UNCHANGED <<results, completed, slept, waits, calls, lastcall, late, runs, coros>>

\* one iteration of the loop whose earliest Event is not due: lines 112-116.
\* ts[1] is the read of line 95, ts[2] the read of line 116.
RunWait ==
  /\ runpc = "loop"
  /\ Len(events) > 0
  /\ \E sorted \in {sort_by_when(events)} :
     \E ts \in Reads(2) :
       /\ ~is_due(sorted[1], ts[1])
       /\ \E d \in {sleep_duration(sorted[1].when, ts[2])} :
            /\ clock' = ts[2] + d
            /\ slept' = slept + d
            /\ waits' = Append(waits, d)
       /\ jitter' = jitter + (ts[2] - clock)
       /\ events' = sorted
       /\ UNCHANGED <<allocated, futures, gens, results, runpc, retval,
                      executed, completed, calls, lastcall, late, runs, coros>>

\* line 93 finds the registry empty, line 118 returns results
RunReturn ==
  /\ runpc = "loop"
  /\ Len(events) = 0
  /\ runpc' = "returned"
  /\ retval' = [tag |-> "list", val |-> results]
  /\ UNCHANGED <<clock, jitter, events, allocated, futures, gens, results,
                 executed, completed, slept, waits, calls, lastcall, late, runs, coros>>

Next == RunCall \/ RunExecute \/ RunWait \/ RunReturn

Spec == Init /\ [][Next]_vars

\* run() is a sequential program: as long as it has a next step it takes it
SpecLive == Spec /\ WF_vars(Next)

\* ------------------------------------------------ holders of a Future
\* A holder of Futures calls the Future API directly, in any order.
FutureIds == 1..Len(futures)

\* the Callback objects a holder registers; each is registered once
HolderCallbacks == {Callback("opaque", k, <<>>) : k \in 1..MaxCallbacks}

CreateFuture ==
  /\ Len(futures) < MaxFutures
  /\ calls < MaxCalls
  /\ futures' = Append(futures, create_future)
  /\ calls' = calls + 1
  /\ lastcall' = [op |-> "create_future", f |-> Len(futures) + 1]
  /\ UNCHANGED <<clock, jitter, events, allocated, gens, results, runpc, retval,
                 executed, completed, slept, waits, late, runs, coros>>

\* f.set_result(value), lines 53-56
SetResult(f, value) ==
  /\ calls < MaxCalls
  /\ \E ts \in Reads(Len(futures[f].callbacks)) :
       LET r == set_result_call(f, value, [futures |-> futures, events |-> events,
                                           allocated |-> allocated, gens |-> gens], ts)
       IN /\ futures' = r.futures
          /\ events' = r.events
          /\ allocated' = r.allocated
          /\ clock' = LastRead(ts)
          /\ jitter' = jitter + (LastRead(ts) - clock)
  /\ calls' = calls + 1
  /\ lastcall' = [op |-> "set_result", f |-> f]
  /\ UNCHANGED <<gens, results, runpc, retval, executed, completed, slept, waits, late, runs, coros>>

\* f.cancel(), lines 58-59
Cancel(f) ==
  /\ calls < MaxCalls
  /\ futures' = [futures EXCEPT ![f] = Future_cancel(@)]
  /\ calls' = calls + 1
  /\ lastcall' = [op |-> "cancel", f |-> f]
  /\ UNCHANGED <<clock, jitter, events, allocated, gens, results, runpc, retval,
                 executed, completed, slept, waits, late, runs, coros>>

\* f.add_done_callback(c), lines 70-71
AddDoneCallback(f, c) ==
  /\ calls < MaxCalls
  /\ \A g \in FutureIds : \A i \in 1..Len(futures[g].callbacks) : futures[g].callbacks[i] # c
  /\ futures' = [futures EXCEPT ![f] = Future_add_done_callback(@, c)]
  /\ late' = IF futures[f].status = DONE THEN late \cup {c} ELSE late
  /\ calls' = calls + 1
  /\ lastcall' = [op |-> "add_done_callback", f |-> f]
  /\ UNCHANGED <<clock, jitter, events, allocated, gens, results, runpc, retval,
                 executed, completed, slept, waits, runs, coros>>

NextFuture ==
  \/ CreateFuture
  \/ \E f \in FutureIds : \E value \in Values : SetResult(f, value)
  \/ \E f \in FutureIds : Cancel(f)
  \/ \E f \in FutureIds : \E c \in HolderCallbacks : AddDoneCallback(f, c)

SpecFuture == Init /\ [][NextFuture]_vars

\* ------------------------------------- a program that calls run() again
\* The main program creates its Futures, then calls run() up to MaxRuns times on
\* the one Loop (line 38), and between the calls completes or cancels the Futures
\* it holds.  The computations it passes are sleep() and generators of its own:
\*   def awaiter(*fs):          def emit(v):       def fail():
\*       got = None                 yield v            raise RuntimeError
\*       for f in fs:                                  yield
\*           got = yield from f
\*       return got
awaiter(fs) ==
  [kind |-> "await", pc |-> "start", futs |-> fs, at |-> 0, got |-> None, seen |-> <<>>]
emit(v) == [kind |-> "emit", pc |-> "start", value |-> v]
fail == [kind |-> "fail", pc |-> "start"]

\* the Futures the main program created and holds
Held == 1..MaxFutures

\* the values the main program passes to set_result()
TaskValues == {None, "v"}

\* the argument tuples of the run() calls; sleep(0.5, f1) has Future 1 as its result
TaskRuns ==
  {<<>>,
   <<awaiter(<<1>>)>>,
   <<awaiter(<<1, 2>>)>>,
   <<awaiter(<<1>>), awaiter(<<1, 2>>)>>,
   <<emit("p")>>,
   <<fail>>,
   <<sleep([delay |-> 1, result |-> FutureRef(1)])>>}

\* the seeding loop of lines 90-91 for the computations cs of gens
RECURSIVE seed_coros(_, _, _, _, _)
seed_coros(evs, cs, ts, id, i) ==
  IF i > Len(cs) THEN evs
  ELSE seed_coros(call_soon(evs, Callback("send", cs[i], <<None>>), ts[i], id + i),
                  cs, ts, id, i + 1)

\* run(*coros), lines 84-91, called when no run() is active
RunTasks ==
  /\ runpc # "loop"
  /\ runs < MaxRuns
  /\ Len(futures) >= MaxFutures
  /\ \E args \in TaskRuns :
       IF Len(args) <= 0
       THEN /\ runpc' = "returned"
            /\ retval' = [tag |-> "none", val |-> <<>>]
            /\ runs' = runs + 1
            /\ coros' = <<>>
            /\ UNCHANGED <<clock, jitter, events, allocated, futures, gens, results,
                           executed, completed, slept, waits, calls, lastcall, late>>
       ELSE \E ts \in Reads(Len(args)) :
            \E cs \in {[i \in 1..Len(args) |-> Len(gens) + i]} :
            /\ gens' = gens \o args
            /\ coros' = cs
            /\ results' = <<>>
            /\ events' = seed_coros(events, cs, ts, allocated, 1)
            /\ allocated' = allocated + Len(args)
            /\ clock' = LastRead(ts)
            /\ jitter' = jitter + (LastRead(ts) - clock)
            /\ runpc' = "loop"
            /\ runs' = runs + 1
            /\ UNCHANGED <<futures, retval, executed, completed, slept, waits, calls,
                           lastcall, late>>

\* the main program's own calls on its Futures, made while no run() is active
HolderCall ==
  /\ runpc # "loop"
  /\ \/ CreateFuture
     \/ \E f \in Held \cap FutureIds : \E value \in TaskValues : SetResult(f, value)
     \/ \E f \in Held \cap FutureIds : Cancel(f)

NextTasks == HolderCall \/ RunTasks \/ RunExecute \/ RunAbort \/ RunWait \/ RunReturn

\* The program starts when the clock has used up its jitter: from here the clock
\* advances only while the process is blocked in time.sleep (line 116), and every
\* datetime.now() in between reads the same instant.
InitTasks ==
  /\ clock = MaxJitter
  /\ jitter = MaxJitter
  /\ events = <<>>
  /\ allocated = 0
  /\ futures = <<>>
  /\ gens = <<>>
  /\ results = <<>>
  /\ runpc = "idle"
  /\ retval = [tag |-> "pending"]
  /\ executed = <<>>
  /\ completed = <<>>
  /\ slept = 0
  /\ waits = <<>>
  /\ calls = 0
  /\ lastcall = [op |-> "none", f |-> 0]
  /\ late = {}
  /\ runs = 0
  /\ coros = <<>>

SpecTasks == InitTasks /\ [][NextTasks]_vars

\* ================================================================ claims
\* number of Events in evs that carry Callback c
EnqueuedIn(evs, c) == Cardinality({i \in 1..Len(evs) : evs[i].callback = c})

\* C1: a Future's status, once DONE or CANCELLED, never changes again: the only
\* moves are SCHEDULED -> DONE and SCHEDULED -> CANCELLED.
C1_StatusTerminal ==
  [][\A f \in FutureIds :
       futures[f].status # SCHEDULED => futures'[f].status = futures[f].status]_vars

\* C2: every Callback registered on a Future is enqueued onto the Loop exactly once,
\* and in the set_result() call that takes the status from SCHEDULED to DONE: its
\* number of Events changes only in that step, from 0 to 1, and that step enqueues
\* every Callback registered before it.
C2_CallbackEnqueuedOnce ==
  [][\A f \in FutureIds : \A i \in 1..Len(futures[f].callbacks) :
       LET c == futures[f].callbacks[i]
           completes == futures[f].status = SCHEDULED /\ futures'[f].status = DONE
       IN /\ EnqueuedIn(events', c) # EnqueuedIn(events, c)
               => (completes /\ EnqueuedIn(events, c) = 0 /\ EnqueuedIn(events', c) = 1)
          /\ completes => EnqueuedIn(events', c) = 1]_vars

\* C4: a Callback registered on a Future that was already DONE is never enqueued
\* onto the Loop, whatever is done to the Future afterwards.
C4_LateCallbackNeverEnqueued ==
  \A c \in late : EnqueuedIn(events, c) = 0

\* C5: a Future holds a result if and only if its status is DONE.
C5_ResultIffDone ==
  \A f \in FutureIds : (futures[f].result_ # NoAttr) <=> (futures[f].status = DONE)

\* C6: cancel() changes only the status of its Future: the stored result and the
\* callbacks of every Future, the other Futures and the Loop's Events are unchanged.
C6_CancelFrame ==
  [][(lastcall'.op = "cancel" /\ calls' = calls + 1) =>
       /\ events' = events
       /\ allocated' = allocated
       /\ Len(futures') = Len(futures)
       /\ \A f \in FutureIds :
            /\ futures'[f].result_ = futures[f].result_
            /\ futures'[f].callbacks = futures[f].callbacks
            /\ f # lastcall'.f => futures'[f] = futures[f]
       /\ futures'[lastcall'.f].status = CANCELLED]_vars

\* C6 witness: cancel() was just called on a Future whose set_result() had fired
\* with a Callback registered
C6_Witness ==
  /\ lastcall.op = "cancel"
  /\ futures[lastcall.f].status = CANCELLED
  /\ futures[lastcall.f].result_ \in Values
  /\ Len(futures[lastcall.f].callbacks) > 0
  /\ EnqueuedIn(events, futures[lastcall.f].callbacks[1]) > 0

\* C3: the Events run() executes have non-decreasing when, and Events of equal when
\* are executed in the order in which they were enqueued.  Stated on each Event and
\* the one executed just before it: the order by (when, enqueue number) is
\* transitive, so this is the same as stating it on every pair.
C3_ExecutedInOrder ==
  \A j \in 2..Len(executed) :
    /\ executed[j - 1].when <= executed[j].when
    /\ executed[j - 1].when = executed[j].when => executed[j - 1].id < executed[j].id

\* C3 witness: a run that returned after executing Events of equal when and Events
\* of different when
C3_Witness ==
  /\ runpc = "returned"
  /\ \E i \in 1..Len(executed) : \E j \in 1..Len(executed) :
       i < j /\ executed[i].when = executed[j].when
  /\ \E i \in 1..Len(executed) : \E j \in 1..Len(executed) :
       i < j /\ executed[i].when < executed[j].when /\ executed[i].id > executed[j].id

\* the position of computation c among the completed ones, 0 when it has not completed
CompletedAt(c) ==
  IF \E k \in 1..Len(completed) : completed[k].coro = c
  THEN CHOOSE k \in 1..Len(completed) : completed[k].coro = c
  ELSE 0

\* C7: of two sleep computations that started at the same instant, the one with the
\* strictly smaller delay completes first; so in run(sleep(5), sleep(2), sleep(2))
\* both 2-second computations complete before the 5-second one.
C7_SmallerDelayFirst ==
  \A k \in 1..Len(completed) : \A i \in 1..Len(gens) :
    (/\ gens[i].delay < gens[completed[k].coro].delay
     /\ gens[i].pc # "start"
     /\ gens[i].t0 = gens[completed[k].coro].t0)
    => \E m \in 1..(k - 1) : completed[m].coro = i

\* C7 witness: run(sleep(5), sleep(2), sleep(2)) with the three start steps at the
\* same instant has returned
C7_Witness ==
  /\ runpc = "returned"
  /\ Len(gens) = 3
  /\ gens[1].delay = 10 /\ gens[2].delay = 4 /\ gens[3].delay = 4
  /\ gens[1].t0 = gens[2].t0 /\ gens[2].t0 = gens[3].t0
  /\ CompletedAt(2) = 1 /\ CompletedAt(3) = 2 /\ CompletedAt(1) = 3

\* the longest delay among the computations of the run
MaxDelay == CHOOSE d \in {gens[c].delay : c \in 1..Len(gens)} :
               \A c \in 1..Len(gens) : gens[c].delay <= d

\* C8: every start step executes before the first blocking wait, and the time run()
\* spends until it returns (not counting what the clock advanced outside the waits)
\* is at most the longest delay plus the wait margin.
C8_ConcurrentSleeps ==
  /\ waits # <<>> => \A c \in 1..Len(gens) : gens[c].pc # "start"
  /\ (runpc = "returned" /\ Len(gens) > 0) => clock - jitter <= MaxDelay + Margin

\* C9: sleep(delay, r) driven by run() completes with final value r: each computation
\* completes at most once and with its result argument; when run() returns each has
\* completed; one with delay 0 completes before the loop's first blocking wait, and a
\* run of such computations never waits.
C9_SleepResult ==
  /\ \A k \in 1..Len(completed) :
       /\ completed[k].value = gens[completed[k].coro].result
       /\ \A l \in 1..Len(completed) : completed[l].coro = completed[k].coro => l = k
  /\ runpc = "returned" =>
       \A c \in 1..Len(gens) : \E k \in 1..Len(completed) : completed[k].coro = c
  /\ waits # <<>> =>
       \A c \in 1..Len(gens) :
         gens[c].delay = 0 => \E k \in 1..Len(completed) : completed[k].coro = c
  /\ (\A c \in 1..Len(gens) : gens[c].delay = 0) => waits = <<>>

\* C9 witness: a run has returned in which a sleep(0, "r") and a sleep with a delay
\* and no result both completed, and a run of sleep(0, "r") alone has returned
C9_Witness ==
  /\ runpc = "returned"
  /\ \E c \in 1..Len(gens) : \E k \in 1..Len(completed) :
       gens[c].delay = 0 /\ completed[k].coro = c /\ completed[k].value = "r"
  /\ \E c \in 1..Len(gens) : \E k \in 1..Len(completed) :
       gens[c].delay > 0 /\ completed[k].coro = c /\ completed[k].value = None
  /\ waits # <<>>

\* C10: run() with no computations returns an empty list, enqueues no Event and
\* executes no Event.
C10_EmptyRun ==
  (runpc = "returned" /\ Len(gens) = 0) =>
     /\ retval.tag = "list" /\ retval.val = <<>>
     /\ events = <<>>
     /\ executed = <<>>

\* C12: run() of sleep computations terminates: it returns with the registry empty
\* and every Event that was enqueued executed.
C12_RunTerminates ==
  <>(runpc = "returned" /\ events = <<>> /\ Len(executed) = allocated)

\* C12 witness: a run of three sleeps that had to wait has returned with all of its
\* nine Events executed
C12_Witness ==
  /\ runpc = "returned"
  /\ Len(gens) = 3
  /\ waits # <<>>
  /\ events = <<>>
  /\ Len(executed) = 9

\* C13: an Event is executed only when its when is at or before the clock read of its
\* loop iteration, and an iteration that finds the earliest Event not due only waits:
\* it executes nothing and leaves the Events of the registry, the Futures, the
\* computations and the results unchanged.
C13_NotBeforeDue ==
  [][/\ Len(executed') > Len(executed) =>
          /\ executed'[Len(executed')].due
          /\ executed'[Len(executed')].when <= clock'
     /\ Len(waits') > Len(waits) =>
          /\ executed' = executed
          /\ sort_by_when(events') = sort_by_when(events)
          /\ futures' = futures
          /\ gens' = gens
          /\ results' = results]_vars

\* C13 witness: after a blocking wait a timer Event was executed, at or after its when
C13_Witness ==
  /\ waits # <<>>
  /\ Len(executed) > 0
  /\ executed[Len(executed)].callback.fn = "set_result"
  /\ executed[Len(executed)].when > 0
  /\ executed[Len(executed)].due
  /\ executed[Len(executed)].when <= clock

\* ------------------------------------------- claims on repeated run() calls
\* C11: whenever run() returns normally, every computation it was given has finished.
C11_AllFinishedOnReturn ==
  (runpc = "returned" /\ retval.tag = "list") =>
    \A i \in 1..Len(coros) : gens[coros[i]].pc = "finished"

\* C14: an executed Event is no longer in the registry, and no Event is executed
\* twice, over all the run() calls on the Loop and after a run() that a step aborted.
C14_ExecutedOnce ==
  /\ \A i \in 1..Len(executed) : \A k \in 1..Len(events) :
       events[k].id # executed[i].id
  /\ \A j \in 2..Len(executed) : \A i \in 1..(j - 1) :
       executed[i].id # executed[j].id

\* C15: a step that ends with StopIteration, whatever its value, registers no
\* Callback on any Future and enqueues no Event for its computation.
C15_FinishedNotRearmed ==
  [][(Len(executed') = Len(executed) + 1 /\ executed'[Len(executed')].stop) =>
       /\ \A f \in 1..Len(futures) : futures'[f].callbacks = futures[f].callbacks
       /\ \A k \in 1..Len(events') :
            events'[k].callback = executed'[Len(executed')].callback
              => \E j \in 1..Len(events) : events[j].id = events'[k].id]_vars

\* the plain values the steps of the current run() returned, in execution order
C16_Returned ==
  LET plain == SelectSeq(executed, LAMBDA e : /\ e.run = runs
                                               /\ ~e.stop /\ ~e.raised
                                               /\ e.ret.tag = "value")
  IN [i \in 1..Len(plain) |-> plain[i].ret.val]

\* C16: the results list holds exactly the plain values the executed steps returned,
\* in execution order, and that is the list run() returns.
C16_ResultsArePlainValues ==
  /\ runpc = "loop" => results = C16_Returned
  /\ (runpc = "returned" /\ retval.tag = "list") => retval.val = C16_Returned

\* C17: awaiting a Future that is DONE produces its stored result, awaiting one that
\* is CANCELLED produces None, both without suspending; awaiting one that is
\* SCHEDULED suspends the computation, once for that await, and the driver is handed
\* that Future.
C17_AwaitOutcomes ==
  /\ \A c \in 1..Len(gens) : gens[c].kind = "await" =>
       \A i \in 1..Len(gens[c].seen) :
         LET e == gens[c].seen[i] IN
         /\ e.status = DONE => e.out = [kind |-> "return", value |-> e.stored]
         /\ e.status = CANCELLED => e.out = [kind |-> "return", value |-> None]
         /\ e.status = SCHEDULED => e.out.kind = "yield"
         /\ \A j \in 1..Len(gens[c].seen) : j # i => gens[c].seen[j].at # e.at
  /\ \A k \in 1..Len(executed) :
       (/\ executed[k].callback.fn = "send"
        /\ gens[executed[k].callback.self].kind = "await"
        /\ ~executed[k].stop /\ ~executed[k].raised) =>
         /\ executed[k].ret.tag = "future"
         /\ \E i \in 1..Len(gens[executed[k].callback.self].seen) :
              /\ gens[executed[k].callback.self].seen[i].f = executed[k].ret.val
              /\ gens[executed[k].callback.self].seen[i].status = SCHEDULED

\* C17 witness: computations have awaited a DONE, a CANCELLED and a SCHEDULED Future,
\* and one that was suspended has been resumed and has finished
C17_Witness ==
  /\ \A st \in FutureStatus :
       \E c \in 1..Len(gens) :
         /\ gens[c].kind = "await"
         /\ \E i \in 1..Len(gens[c].seen) : gens[c].seen[i].status = st
  /\ \E c \in 1..Len(gens) :
       /\ gens[c].kind = "await"
       /\ gens[c].pc = "finished"
       /\ \E i \in 1..Len(gens[c].seen) : gens[c].seen[i].status = SCHEDULED

\* C18: a step that returns the Future its computation is suspended on leaves the
\* continuation (send, same arguments) registered on that Future within the same loop
\* iteration; and a computation suspended on a Future that set_result() has been
\* called on has its continuation pending in the registry, so that the loop resumes it.
C18_NoLostWakeup ==
  /\ [](\A c \in 1..Len(gens) :
          (gens[c].pc = "awaiting" /\ futures[waiting_on(gens[c])].result_ # NoAttr) =>
            \E k \in 1..Len(events) : events[k].callback = Callback("send", c, <<None>>))
  /\ [][(/\ Len(executed') = Len(executed) + 1
         /\ executed'[Len(executed')].callback.fn = "send"
         /\ executed'[Len(executed')].ret.tag = "future"
         /\ ~executed'[Len(executed')].stop) =>
          \E i \in 1..Len(futures'[executed'[Len(executed')].ret.val].callbacks) :
            futures'[executed'[Len(executed')].ret.val].callbacks[i] =
              executed'[Len(executed')].callback]_vars

\* C18 witness: a computation of an earlier run() that was suspended on a Future of
\* the main program, which called set_result() on it after that run() returned, has
\* been resumed by the next run() and has finished
C18_Witness ==
  /\ runs = 2
  /\ runpc = "returned"
  /\ \E c \in 1..Len(gens) :
       /\ gens[c].kind = "await"
       /\ \A i \in 1..Len(coros) : coros[i] # c
       /\ gens[c].pc = "finished"
       /\ Len(gens[c].seen) = 1
       /\ gens[c].seen[1].status = SCHEDULED
       /\ futures[gens[c].seen[1].f].status = DONE

\* C19: whenever a run() call returns normally the registry is empty, whatever was
\* passed to it and whatever happened on the Loop before.
C19_EmptyOnReturn ==
  [][(runpc' = "returned" /\ (runpc = "loop" \/ runs' > runs)) => events' = <<>>]_vars

\* C20: a computation is advanced only from its start or when the Future it is
\* suspended on is DONE: never while that Future is SCHEDULED, and never after it
\* has finished.
C20_NoSpuriousWakeup ==
  \A i \in 1..Len(executed) :
    executed[i].callback.fn = "send" =>
      /\ executed[i].pc # "finished"
      /\ executed[i].pc = "awaiting" => executed[i].wstatus = DONE

====
